---- MODULE Spec2Model ----
(***************************************************************************)
(* Model of the load balancer simulation: LoadBalancer (constructor, Run,  *)
(* scaleServers, genRandReq, generate_IP, isBlockedIP), WebServer and      *)
(* Request.  One tick of LoadBalancer::Run is split at the places the     *)
(* source separates its steps: arrival, the handleRequest loop, the       *)
(* assignment loop and scaleServers.                                       *)
(***************************************************************************)
EXTENDS Integers, Sequences, FiniteSets, TLC

\* ---------------------------------------------------------------- bounds
\* Largest initial number of servers entered in main.
MaxInitServers == 2
\* Largest number of clock cycles entered in main.
MaxRunTime == 14
\* Number of leading requests of the initial queue whose random draws vary;
\* the remaining ones take the default draw.
BacklogVary == 2
\* Largest number of rand() outcomes of one run that differ from the default
\* outcome (a request is generated, its origin is outside the blocked range,
\* it is a streaming job, its time draw is 0).
MaxOdd == 1
\* Largest value of the rand() draw that selects the processing time.
MaxTimeDraw == 0
\* First octet drawn for an address outside the blocked range.
OpenOctet == 10
\* First octet drawn for an address inside the blocked range.
ShutOctet == 193
\* Octet drawn for the three trailing components of every address.
TailOctet == 1
\* Largest pool size and queue length of the states scaleServers is applied
\* to in SpecScale.
MaxPool == 3
MaxQueueLen == 80
\* Largest number of consecutive handleRequest calls on an available server
\* and largest cycle in SpecServer.
MaxIdleCalls == 2
MaxServerCycles == 32

\* ------------------------------------------------------- program constants
SCALE_WAIT == 3
BacklogPerServer == 20
ScaleUpFactor == 25
ScaleDownFactor == 15
BlockedLow == 192
BlockedHigh == 200
StreamBase == 12
StreamSpan == 4
ProcBase == 30
ProcSpan == 11
OctetRange == 256

VARIABLES
    requestQueue,            \* std::queue<Request>
    webServers,              \* std::vector<WebServer>
    currentClockCycle,
    runningTime,
    initialNumServers,
    scaleCooldown,
    totalRequestsProcessed,
    blockedRequests,
    pc,                      \* position inside LoadBalancer::Run
    accepted,                \* history: requests that passed !isBlockedIP in Run
    dispatched,              \* history: requests popped from the queue
    odd,                     \* history: non-default rand() outcomes so far
    lastGen,                 \* the local req of Run: <<>> or <<the request generated in this cycle>>
    enqueued,                \* history: every request pushed on the queue, in push order
    served,                  \* history: every request handed to a server, in hand-out order
    retired,                 \* history: serverIDs of the servers removed by scale-down
    idleCalls,               \* history: consecutive handleRequest calls on an available server
    lastScaleTick,           \* history: cycle of the last pool change, 0 if none
    prevEval,                \* history: outcome of the non-cooldown evaluation before lastEval
    lastEval                 \* history: outcome of the last non-cooldown scaleServers evaluation

vars == <<requestQueue, webServers, currentClockCycle, runningTime,
          initialNumServers, scaleCooldown, totalRequestsProcessed,
          blockedRequests, pc, accepted, dispatched, odd, lastGen,
          enqueued, served, retired, idleCalls,
          lastScaleTick, prevEval, lastEval>>

\* ------------------------------------------------------------ strings
Digits == <<"0", "1", "2", "3", "4", "5", "6", "7", "8", "9">>

IsDigit(c) == \E i \in 1..10 : Digits[i] = c

DigitVal(c) == (CHOOSE i \in 1..10 : Digits[i] = c) - 1

\* std::to_string(int) for a non-negative value
RECURSIVE to_string(_)
to_string(n) ==
    IF n < 10 THEN <<Digits[n + 1]>>
    ELSE Append(to_string(n \div 10), Digits[(n % 10) + 1])

\* std::string::find(char): index of the first occurrence (1-based), 0 for npos
Find(s, c) ==
    IF \E i \in 1..Len(s) : s[i] = c
    THEN CHOOSE i \in 1..Len(s) : s[i] = c /\ \A j \in 1..(i - 1) : s[j] # c
    ELSE 0

\* ip.substr(0, pos) where pos is the result of find (npos keeps everything)
Prefix(s, pos) == IF pos = 0 THEN s ELSE SubSeq(s, 1, pos - 1)

\* number of leading decimal digits of s
LeadingDigits(s) ==
    IF \E i \in 1..Len(s) : ~IsDigit(s[i])
    THEN (CHOOSE i \in 1..Len(s) : ~IsDigit(s[i]) /\ \A j \in 1..(i - 1) : IsDigit(s[j])) - 1
    ELSE Len(s)

RECURSIVE DigitsValue(_)
DigitsValue(s) ==
    IF Len(s) = 0 THEN 0
    ELSE 10 * DigitsValue(SubSeq(s, 1, Len(s) - 1)) + DigitVal(s[Len(s)])

\* std::stoi: an optional sign, then the leading digits; throws
\* std::invalid_argument when there is no digit. The argument (s) and the
\* number of leading digits (n) are bound as values, so that each is
\* computed once.
stoi(str) ==
    LET conv(s, signed) ==
          LET body == IF signed THEN Tail(s) ELSE s
              num(n) ==
                LET v == DigitsValue(SubSeq(body, 1, n))
                IN  IF n = 0 THEN [throws |-> TRUE, value |-> 0]
                    ELSE [throws |-> FALSE,
                          value |-> IF signed /\ s[1] = "-" THEN 0 - v ELSE v]
          IN  CHOOSE r \in {num(n) : n \in {LeadingDigits(body)}} : TRUE
    IN  CHOOSE r \in {conv(s, Len(s) > 0 /\ s[1] \in {"-", "+"}) : s \in {str}} : TRUE

\* ------------------------------------------------------------ Request
Request(ipIn, ipOut, isStreaming, processingTime, arrivalTime) ==
    [ipIn |-> ipIn, ipOut |-> ipOut, isStreaming |-> isStreaming,
     processingTime |-> processingTime, arrivalTime |-> arrivalTime]

getProcessingTime(request) == request.processingTime

getIpIn(request) == request.ipIn

\* ------------------------------------------------------------ WebServer
\* assignedAt is history: the cycle of the last processRequest, 0 if none.
WebServer(id) ==
    [serverID |-> id, isAvailable |-> TRUE,
     currentRequest |-> Request(<<>>, <<>>, FALSE, 0, 0),
     timeRemaining |-> 0, assignedAt |-> 0]

isNotActive_always(server) == TRUE

isNotActive(server) == server.isAvailable

processRequest_ticked(server, request, clock) ==
    [server EXCEPT !.currentRequest = request,
                   !.timeRemaining = getProcessingTime(request) - 1,
                   !.isAvailable = FALSE,
                   !.assignedAt = clock]

processRequest(server, request, clock) ==
    [server EXCEPT !.currentRequest = request,
                   !.timeRemaining = getProcessingTime(request),
                   !.isAvailable = FALSE,
                   !.assignedAt = clock]

handleRequest_stuck(server) ==
    IF ~server.isAvailable /\ server.timeRemaining > 0
    THEN [server EXCEPT !.timeRemaining = server.timeRemaining - 1]
    ELSE server

handleRequest_unguarded(server) ==
    [server EXCEPT !.timeRemaining = server.timeRemaining - 1,
                   !.isAvailable = (server.timeRemaining - 1 = 0)]

handleRequest(server) ==
    IF ~server.isAvailable /\ server.timeRemaining > 0
    THEN [server EXCEPT !.timeRemaining = server.timeRemaining - 1,
                        !.isAvailable = (server.timeRemaining - 1 = 0)]
    ELSE server

\* ------------------------------------------------------------ generator
\* generate_IP with the four rand() % 256 results a, b, c, d
generate_IP(a, b, c, d) ==
    to_string(a) \o <<".">> \o to_string(b) \o <<".">> \o
    to_string(c) \o <<".">> \o to_string(d)

\* the draws of one genRandReq call: first octet of ipIn, the rand() % 2
\* job-type coin and the rand() that selects the processing time
Draws == [octet : {OpenOctet, ShutOctet}, isStreaming : BOOLEAN, r : 0..MaxTimeDraw]

DefaultDraw == [octet |-> OpenOctet, isStreaming |-> TRUE, r |-> 0]

IsOdd(d) == d # DefaultDraw

genRandReq(d, clock) ==
    Request(generate_IP(d.octet, TailOctet, TailOctet, TailOctet),
            generate_IP(OpenOctet, TailOctet, TailOctet, TailOctet),
            d.isStreaming,
            IF d.isStreaming THEN (d.r % StreamSpan) + StreamBase
                             ELSE (d.r % ProcSpan) + ProcBase,
            clock)

isBlockedIP_or(ip) ==
    LET test(firstOctet) ==
          [throws |-> firstOctet.throws,
           value |-> /\ ~firstOctet.throws
                     /\ (firstOctet.value >= BlockedLow \/ firstOctet.value <= BlockedHigh)]
    IN  CHOOSE r \in {test(o) : o \in {stoi(Prefix(ip, Find(ip, ".")))}} : TRUE

\* throws: std::stoi threw; value: the result otherwise
isBlockedIP(ip) ==
    LET test(firstOctet) ==
          [throws |-> firstOctet.throws,
           value |-> /\ ~firstOctet.throws
                     /\ firstOctet.value >= BlockedLow
                     /\ firstOctet.value <= BlockedHigh]
    IN  CHOOSE r \in {test(o) : o \in {stoi(Prefix(ip, Find(ip, ".")))}} : TRUE

\* ------------------------------------------------------------ constructor
createWebServers(numOfServers) == [i \in 1..numOfServers |-> WebServer(i - 1)]

\* the draws of the numOfServers * 20 genRandReq calls of populateReqQueue
BacklogDraws(numOfServers) ==
    LET total == numOfServers * BacklogPerServer
        k == IF BacklogVary < total THEN BacklogVary ELSE total
    IN  {[i \in 1..total |-> IF i <= k THEN head[i] ELSE DefaultDraw] :
            head \in {h \in [1..k -> Draws] :
                        Cardinality({i \in 1..k : IsOdd(h[i])}) <= MaxOdd}}

populateReqQueue(ds) == [i \in DOMAIN ds |-> genRandReq(ds[i], 0)]

Init ==
    \E numServers \in 1..MaxInitServers, runTime \in {1, MaxRunTime} :
      \E ds \in BacklogDraws(numServers) :
        /\ currentClockCycle = 0
        /\ runningTime = runTime
        /\ initialNumServers = numServers
        /\ scaleCooldown = 0
        /\ totalRequestsProcessed = 0
        /\ blockedRequests = 0
        /\ webServers = createWebServers(numServers)
        /\ requestQueue = populateReqQueue(ds)
        /\ pc = "loop"
        /\ accepted = 0
        /\ dispatched = 0
        /\ odd = Cardinality({i \in DOMAIN ds : IsOdd(ds[i])})
        /\ lastGen = <<>>
        /\ enqueued = populateReqQueue(ds)
        /\ served = <<>>
        /\ retired = {}
        /\ idleCalls = 0
        /\ lastScaleTick = 0
        /\ prevEval = "init"
        /\ lastEval = "init"

\* ------------------------------------------------------------ Run
LoopCond_le == currentClockCycle <= runningTime

\* while (currentClockCycle < runningTime)
LoopCond == currentClockCycle < runningTime

\* { currentClockCycle++;
\*   rand() % 100 < 90 is false: no request is generated
NoArrival ==
    /\ pc = "loop"
    /\ LoopCond
    /\ odd < MaxOdd
    /\ currentClockCycle' = currentClockCycle + 1
    /\ odd' = odd + 1
    /\ lastGen' = <<>>
    /\ pc' = "advance"
    /\ UNCHANGED <<requestQueue, webServers, runningTime, initialNumServers,
                   scaleCooldown, totalRequestsProcessed, blockedRequests,
                   accepted, dispatched, enqueued, served, retired, idleCalls,
                   lastScaleTick, prevEval, lastEval>>

\*   Request req = ...; if (!isBlockedIP(req.getIpIn())) push else
\*   blockedRequests++; an exception of isBlockedIP leaves Run and, uncaught
\*   in main, ends the program
Admit(req) ==
    /\ currentClockCycle' = currentClockCycle + 1
    /\ lastGen' = <<req>>
    /\ \E blocked \in {isBlockedIP(getIpIn(req))} :
           IF blocked.throws
           THEN /\ pc' = "terminated"
                /\ UNCHANGED <<requestQueue, accepted, enqueued, blockedRequests>>
           ELSE IF ~blocked.value
           THEN /\ requestQueue' = Append(requestQueue, req)
                /\ accepted' = accepted + 1
                /\ enqueued' = Append(enqueued, req)
                /\ pc' = "advance"
                /\ UNCHANGED blockedRequests
           ELSE /\ blockedRequests' = blockedRequests + 1
                /\ pc' = "advance"
                /\ UNCHANGED <<requestQueue, accepted, enqueued>>
    /\ UNCHANGED <<webServers, runningTime, initialNumServers, scaleCooldown,
                   totalRequestsProcessed, dispatched, served, retired,
                   idleCalls, lastScaleTick, prevEval, lastEval>>

\*   rand() % 100 < 90: genRandReq, then the isBlockedIP test
Arrival ==
    /\ pc = "loop"
    /\ LoopCond
    /\ \E d \in Draws :
         /\ IsOdd(d) => odd < MaxOdd
         /\ odd' = IF IsOdd(d) THEN odd + 1 ELSE odd
         /\ \E req \in {genRandReq(d, currentClockCycle + 1)} : Admit(req)

\*   for (auto& server : webServers) server.handleRequest();
Advance ==
    /\ pc = "advance"
    /\ webServers' = [i \in DOMAIN webServers |-> handleRequest(webServers[i])]
    /\ pc' = "dispatch"
    /\ UNCHANGED <<requestQueue, currentClockCycle, runningTime,
                   initialNumServers, scaleCooldown, totalRequestsProcessed,
                   blockedRequests, accepted, dispatched, odd, lastGen,
                   enqueued, served, retired, idleCalls,
                   lastScaleTick, prevEval, lastEval>>

\*   the assignment loop from server i on: servers, queue and the number of
\*   assignments made
RECURSIVE AssignLoop(_, _, _, _, _)
RECURSIVE AssignLoop_nopop(_, _, _, _, _)
AssignLoop_nopop(servers, queue, i, n, clock) ==
    IF i > Len(servers) THEN [servers |-> servers, queue |-> queue, n |-> n]
    ELSE IF isNotActive(servers[i]) /\ queue # <<>>
         THEN AssignLoop_nopop([servers EXCEPT ![i] = processRequest(servers[i], Head(queue), clock)],
                               queue, i + 1, n + 1, clock)
         ELSE AssignLoop_nopop(servers, queue, i + 1, n, clock)

AssignLoop_first(servers, queue, i, n, clock) ==
    IF \E j \in i..Len(servers) : isNotActive(servers[j]) /\ queue # <<>>
    THEN LET j == CHOOSE j \in i..Len(servers) :
                    /\ isNotActive(servers[j])
                    /\ \A m \in i..(j - 1) : ~isNotActive(servers[m])
         IN  [servers |-> [servers EXCEPT ![j] = processRequest(servers[j], Head(queue), clock)],
              queue |-> Tail(queue), n |-> n + 1]
    ELSE [servers |-> servers, queue |-> queue, n |-> n]

RECURSIVE AssignLoop_lifo(_, _, _, _, _)
AssignLoop_lifo(servers, queue, i, n, clock) ==
    IF i > Len(servers) THEN [servers |-> servers, queue |-> queue, n |-> n]
    ELSE IF isNotActive(servers[i]) /\ queue # <<>>
         THEN AssignLoop_lifo([servers EXCEPT ![i] = processRequest(servers[i], queue[Len(queue)], clock)],
                              SubSeq(queue, 1, Len(queue) - 1), i + 1, n + 1, clock)
         ELSE AssignLoop_lifo(servers, queue, i + 1, n, clock)

AssignLoop(servers, queue, i, n, clock) ==
    IF i > Len(servers) THEN [servers |-> servers, queue |-> queue, n |-> n]
    ELSE IF isNotActive(servers[i]) /\ queue # <<>>
         THEN AssignLoop([servers EXCEPT ![i] = processRequest(servers[i], Head(queue), clock)],
                         Tail(queue), i + 1, n + 1, clock)
         ELSE AssignLoop(servers, queue, i + 1, n, clock)

\*   the requests handed out in cycle clock, in pool order
Handed(servers, clock) ==
    LET got == SelectSeq(servers, LAMBDA w : w.assignedAt = clock)
    IN  [j \in 1..Len(got) |-> got[j].currentRequest]

\*   for (auto& server : webServers) if (server.isNotActive() && !requestQueue.empty()) ...
Dispatch ==
    /\ pc = "dispatch"
    /\ \E r \in {AssignLoop(webServers, requestQueue, 1, 0, currentClockCycle)} :
           /\ webServers' = r.servers
           /\ requestQueue' = r.queue
           /\ totalRequestsProcessed' = totalRequestsProcessed + r.n
           /\ dispatched' = dispatched + r.n
           /\ served' = served \o Handed(r.servers, currentClockCycle)
    /\ pc' = "scale"
    /\ UNCHANGED <<currentClockCycle, runningTime, initialNumServers,
                   scaleCooldown, blockedRequests, accepted, odd, lastGen,
                   enqueued, retired, idleCalls,
                   lastScaleTick, prevEval, lastEval>>

\* ------------------------------------------------------------ scaleServers
ScaleUpCond_ge(queueSize, numServers) == queueSize >= ScaleUpFactor * numServers

ScaleUpCond(queueSize, numServers) == queueSize > ScaleUpFactor * numServers

ScaleDownCond_wide(queueSize, numServers) ==
    queueSize < (ScaleDownFactor + 5) * numServers /\ numServers > 1

ScaleDownCond_toZero(queueSize, numServers) ==
    queueSize < ScaleDownFactor * numServers

ScaleDownCond(queueSize, numServers) ==
    queueSize < ScaleDownFactor * numServers /\ numServers > 1

scaleServers_noReturn(servers, queue, cooldown) ==
    LET queueSize == Len(queue)
        numServers == Len(servers)
        cd == IF cooldown > 0 THEN cooldown - 1 ELSE cooldown
    IN  IF ScaleUpCond(queueSize, numServers)
        THEN [servers |-> Append(servers, WebServer(numServers)),
              cooldown |-> SCALE_WAIT, event |-> "up"]
        ELSE IF ScaleDownCond(queueSize, numServers)
        THEN [servers |-> SubSeq(servers, 1, numServers - 1),
              cooldown |-> SCALE_WAIT, event |-> "down"]
        ELSE [servers |-> servers, cooldown |-> cd,
              event |-> IF cooldown > 0 THEN "cooldown" ELSE "none"]

scaleServers_noCooldown(servers, queue, cooldown) ==
    LET queueSize == Len(queue)
        numServers == Len(servers)
    IN  IF cooldown > 0
        THEN [servers |-> servers, cooldown |-> cooldown - 1, event |-> "cooldown"]
        ELSE IF ScaleUpCond(queueSize, numServers)
        THEN [servers |-> Append(servers, WebServer(numServers)),
              cooldown |-> cooldown, event |-> "up"]
        ELSE IF ScaleDownCond(queueSize, numServers)
        THEN [servers |-> SubSeq(servers, 1, numServers - 1),
              cooldown |-> SCALE_WAIT, event |-> "down"]
        ELSE [servers |-> servers, cooldown |-> cooldown, event |-> "none"]

scaleServers_sameId(servers, queue, cooldown) ==
    LET queueSize == Len(queue)
        numServers == Len(servers)
    IN  IF cooldown > 0
        THEN [servers |-> servers, cooldown |-> cooldown - 1, event |-> "cooldown"]
        ELSE IF ScaleUpCond(queueSize, numServers)
        THEN [servers |-> Append(servers, WebServer(numServers - 1)),
              cooldown |-> SCALE_WAIT, event |-> "up"]
        ELSE IF ScaleDownCond(queueSize, numServers)
        THEN [servers |-> SubSeq(servers, 1, numServers - 1),
              cooldown |-> SCALE_WAIT, event |-> "down"]
        ELSE [servers |-> servers, cooldown |-> cooldown, event |-> "none"]

\* the new pool, the new cooldown and the outcome of one scaleServers call
scaleServers(servers, queue, cooldown) ==
    LET queueSize == Len(queue)
        numServers == Len(servers)
    IN  IF cooldown > 0
        THEN [servers |-> servers, cooldown |-> cooldown - 1, event |-> "cooldown"]
        ELSE IF ScaleUpCond(queueSize, numServers)
        THEN [servers |-> Append(servers, WebServer(numServers)),
              cooldown |-> SCALE_WAIT, event |-> "up"]
        ELSE IF ScaleDownCond(queueSize, numServers)
        THEN [servers |-> SubSeq(servers, 1, numServers - 1),
              cooldown |-> SCALE_WAIT, event |-> "down"]
        ELSE [servers |-> servers, cooldown |-> cooldown, event |-> "none"]

ScaleBody ==
    \E r \in {scaleServers(webServers, requestQueue, scaleCooldown)} :
        /\ webServers' = r.servers
        /\ scaleCooldown' = r.cooldown
        /\ lastScaleTick' = IF r.event \in {"up", "down"} THEN currentClockCycle
                            ELSE lastScaleTick
        /\ lastEval' = IF r.event = "cooldown" THEN lastEval ELSE r.event
        /\ prevEval' = IF r.event = "cooldown" THEN prevEval ELSE lastEval
        /\ retired' = IF r.event = "down"
                      THEN retired \cup {webServers[Len(webServers)].serverID}
                      ELSE retired
        /\ UNCHANGED <<requestQueue, currentClockCycle, runningTime,
                       initialNumServers, totalRequestsProcessed,
                       blockedRequests, accepted, dispatched, odd, lastGen,
                       enqueued, served, idleCalls>>

\*   scaleServers(); the logState / printSummary calls change no state
Scale ==
    /\ pc = "scale"
    /\ ScaleBody
    /\ pc' = "loop"

\* } the loop exits and the final report is written
Finish ==
    /\ pc = "loop"
    /\ ~LoopCond
    /\ pc' = "done"
    /\ UNCHANGED <<requestQueue, webServers, currentClockCycle, runningTime,
                   initialNumServers, scaleCooldown, totalRequestsProcessed,
                   blockedRequests, accepted, dispatched, odd, lastGen,
                   enqueued, served, retired, idleCalls,
                   lastScaleTick, prevEval, lastEval>>

Next == NoArrival \/ Arrival \/ Advance \/ Dispatch \/ Scale \/ Finish

Spec == Init /\ [][Next]_vars

\* ------------------------------------------------------------ SpecScale
\* An engine state at position p of some cycle: a pool of n servers, each
\* available or busy, a queue of q requests and a cooldown.
PoolStates(n) ==
    {[i \in 1..n |-> IF i \in busy
                     THEN processRequest(WebServer(i - 1), genRandReq(DefaultDraw, 0), 1)
                     ELSE WebServer(i - 1)] : busy \in SUBSET (1..n)}

InitAt(p) ==
    \E n \in 1..MaxPool, q \in 0..MaxQueueLen, cd \in 0..SCALE_WAIT :
      \E pool \in PoolStates(n) :
        LET started == [j \in 1..Cardinality({i \in 1..n : ~pool[i].isAvailable})
                          |-> genRandReq(DefaultDraw, 0)]
            queue == [i \in 1..q |-> genRandReq(DefaultDraw, 0)]
        IN  /\ currentClockCycle = 2
            /\ runningTime = 2
            /\ initialNumServers = n
            /\ scaleCooldown = cd
            /\ totalRequestsProcessed = Len(started)
            /\ blockedRequests = 0
            /\ webServers = pool
            /\ requestQueue = queue
            /\ pc = p
            /\ accepted = 0
            /\ dispatched = Len(started)
            /\ odd = 0
            /\ lastGen = <<>>
            /\ enqueued = started \o queue
            /\ served = started
            /\ retired = {}
            /\ idleCalls = 0
            /\ lastScaleTick = 0
            /\ prevEval = "init"
            /\ lastEval = "init"

\* scaleServers applied repeatedly, the queue left as it is.
InitScale == InitAt("scale")

ScaleEval ==
    /\ pc = "scale"
    /\ ScaleBody
    /\ UNCHANGED pc

NextScale == ScaleEval

SpecScale == InitScale /\ [][NextScale]_vars

\* ------------------------------------------------------------ SpecLive
\* Run under the scheduling of a sequential program: a step that can be
\* taken is taken. The constructor drew the default request for the whole
\* backlog (the contents of the queue play no part in the loop test); the
\* draws of Run stay free.
InitLive == Init /\ odd = 0

SpecLive == InitLive /\ [][Next]_vars /\ WF_vars(Next)

\* ------------------------------------------------------------ SpecDispatch
\* the assignment loop applied to an engine state after the handleRequest loop
InitDispatch == InitAt("dispatch")

NextDispatch == Dispatch

SpecDispatch == InitDispatch /\ [][NextDispatch]_vars

\* ------------------------------------------------------------ SpecServer
\* one WebServer driven through its two operations: handleRequest once per
\* cycle, processRequest when the engine finds it available
InitServer ==
    /\ currentClockCycle = 0
    /\ runningTime = MaxServerCycles
    /\ initialNumServers = 1
    /\ scaleCooldown = 0
    /\ totalRequestsProcessed = 0
    /\ blockedRequests = 0
    /\ webServers = createWebServers(1)
    /\ requestQueue = <<>>
    /\ pc = "server"
    /\ accepted = 0
    /\ dispatched = 0
    /\ odd = 0
    /\ lastGen = <<>>
    /\ enqueued = <<>>
    /\ served = <<>>
    /\ retired = {}
    /\ idleCalls = 0
    /\ lastScaleTick = 0
    /\ prevEval = "init"
    /\ lastEval = "init"

ServerTick ==
    /\ pc = "server"
    /\ LoopCond
    /\ isNotActive(webServers[1]) => idleCalls < MaxIdleCalls
    /\ currentClockCycle' = currentClockCycle + 1
    /\ webServers' = [i \in DOMAIN webServers |-> handleRequest(webServers[i])]
    /\ idleCalls' = IF isNotActive(webServers[1]) THEN idleCalls + 1 ELSE 0
    /\ UNCHANGED <<requestQueue, runningTime, initialNumServers, scaleCooldown,
                   totalRequestsProcessed, blockedRequests, pc, accepted,
                   dispatched, odd, lastGen, enqueued, served, retired,
                   lastScaleTick, prevEval, lastEval>>

ServerAssign ==
    /\ pc = "server"
    /\ currentClockCycle > 0
    /\ isNotActive(webServers[1])
    /\ \E d \in Draws :
         LET req == genRandReq(d, currentClockCycle)
         IN  /\ webServers' = [webServers EXCEPT
                                 ![1] = processRequest(@, req, currentClockCycle)]
             /\ served' = Append(served, req)
    /\ idleCalls' = 0
    /\ totalRequestsProcessed' = totalRequestsProcessed + 1
    /\ dispatched' = dispatched + 1
    /\ UNCHANGED <<requestQueue, currentClockCycle, runningTime,
                   initialNumServers, scaleCooldown, blockedRequests, pc,
                   accepted, odd, lastGen, enqueued, retired,
                   lastScaleTick, prevEval, lastEval>>

NextServer == ServerTick \/ ServerAssign

SpecServer == InitServer /\ [][NextServer]_vars

\* ------------------------------------------------------------ SpecFilter
\* the admission test of Run applied, right after construction, to a request
\* with any first octet and to a request whose origin address does not start
\* with a number
Malformed ==
    {<<"a", "b", "c", ".", "1", ".", "1", ".", "1">>,
     <<".", "1", ".", "1", ".", "1">>,
     <<"x">>,
     <<>>}

ArrivalAny ==
    /\ pc = "loop"
    /\ LoopCond
    /\ \E o \in 0..(OctetRange - 1) :
         Admit(genRandReq([DefaultDraw EXCEPT !.octet = o], currentClockCycle + 1))
    /\ UNCHANGED odd

ArrivalRaw ==
    /\ pc = "loop"
    /\ LoopCond
    /\ \E ip \in Malformed :
         Admit(Request(ip, generate_IP(OpenOctet, TailOctet, TailOctet, TailOctet),
                       TRUE, StreamBase, currentClockCycle + 1))
    /\ UNCHANGED odd

NextFilter == ArrivalAny \/ ArrivalRaw

SpecFilter == Init /\ [][NextFilter]_vars

\* ------------------------------------------------------------ properties
Busy(server) == ~server.isAvailable

\* the servers that go from busy to available in the step
Completions ==
    {i \in DOMAIN webServers \cap DOMAIN webServers' :
        Busy(webServers[i]) /\ ~Busy(webServers'[i])}

\* C1: totalRequestsProcessed never decreases and grows by exactly one for
\* each server that goes from busy to available in the handleRequest loop,
\* and by nothing else (in particular not in the assignment loop).
C1_ProcessedCountsCompletions ==
    [][/\ totalRequestsProcessed' >= totalRequestsProcessed
       /\ totalRequestsProcessed' - totalRequestsProcessed =
            IF pc = "advance" THEN Cardinality(Completions) ELSE 0]_vars

\* C2: no scaling action removes a busy server: whenever the pool shrinks,
\* the server that is removed (the last one) is available.
C2_NoBusyServerRemoved ==
    [][Len(webServers') < Len(webServers)
         => ~Busy(webServers[Len(webServers)])]_vars

\* C3: every server of the pool has timeRemaining >= 0 and is available if
\* and only if its timeRemaining is 0.
C3_IdleIffNoTimeRemaining ==
    \A i \in DOMAIN webServers :
        /\ webServers[i].timeRemaining >= 0
        /\ webServers[i].isAvailable <=> (webServers[i].timeRemaining = 0)

\* a server that served a request to its end is available again while
\* another request is being served or has been served
C3_Witness ==
    /\ pc = "dispatch"
    /\ \E i \in DOMAIN webServers :
         webServers[i].assignedAt > 0 /\ webServers[i].isAvailable
    /\ dispatched >= 1

\* C4: at construction and at the end of every cycle the queue length is
\* non-negative and equals the number of requests that passed the
\* isBlockedIP test minus the number of requests handed to servers.
C4_QueueIsAcceptedMinusDispatched ==
    /\ Len(requestQueue) >= 0
    /\ pc \in {"loop", "done"} => Len(requestQueue) = accepted - dispatched

\* C5: a request assigned in the assignment loop of cycle t with processing
\* time s leaves its server busy with timeRemaining = s at the end of cycle
\* t; after the handleRequest loop of cycle c the server has
\* timeRemaining = s - (c - t) and is available exactly from c = t + s; an
\* available server that the queue reaches is given a request in the
\* assignment loop of that same cycle.
C5_StateOK ==
    \A i \in DOMAIN webServers :
        LET w == webServers[i]
            s == w.currentRequest.processingTime
            t == w.assignedAt
            c == currentClockCycle
        IN  t > 0 =>
              /\ (pc \in {"scale", "loop", "done"} /\ t = c)
                    => (Busy(w) /\ w.timeRemaining = s)
              /\ (pc \in {"dispatch", "scale", "loop", "done"} /\ c < t + s)
                    => (Busy(w) /\ w.timeRemaining = s - (c - t))
              /\ (pc = "dispatch" /\ c >= t + s)
                    => (~Busy(w) /\ w.timeRemaining = 0)

C5_StepOK ==
    \A i \in DOMAIN webServers :
        (/\ pc = "dispatch"
         /\ ~Busy(webServers[i])
         /\ Len(requestQueue) >= Cardinality({j \in 1..i : ~Busy(webServers[j])}))
        => (/\ webServers'[i].assignedAt = currentClockCycle
            /\ Busy(webServers'[i])
            /\ webServers'[i].timeRemaining = webServers'[i].currentRequest.processingTime)

C5_AdvanceBeforeDispatch == [](C5_StateOK) /\ [][C5_StepOK]_vars

\* the first server, busy since cycle 1 with a request of 12 cycles, became
\* available in cycle 13 and was given the next request in that same cycle
C5_Witness ==
    /\ pc = "scale"
    /\ currentClockCycle = 13
    /\ webServers[1].assignedAt = 13
    /\ Busy(webServers[1])
    /\ dispatched >= 2 + (Len(webServers) - 1)

C7_NoOscillation ==
    /\ ~(prevEval = "up" /\ lastEval = "down")
    /\ ~(prevEval = "down" /\ lastEval = "up")

\* C7 amended: the same for every pool size n >= 2; the only alternation is
\* between pool sizes 1 and 2 (queue lengths 26..29).
C7_NoOscillationFromTwo ==
    /\ (prevEval = "up" /\ lastEval = "down")
          => (Len(webServers) = 1 /\ Len(requestQueue) \in 26..29)
    /\ (prevEval = "down" /\ lastEval = "up")
          => (Len(webServers) = 2 /\ Len(requestQueue) \in 26..29)

\* a scale-up from a pool of at least 2, followed by an evaluation outside
\* the cooldown that did nothing
C7_Witness ==
    /\ prevEval = "up" /\ lastEval = "none"
    /\ Len(webServers) >= 3
    /\ scaleCooldown = 0

\* C8: an evaluation with scaleCooldown > 0 decrements it by one and leaves
\* the pool unchanged; a pool change sets scaleCooldown to 3, and two pool
\* changes are at least 4 cycles apart.
C8_CooldownSeparatesScaling ==
    [][/\ (pc = "scale" /\ scaleCooldown > 0)
            => (scaleCooldown' = scaleCooldown - 1 /\ webServers' = webServers)
       /\ Len(webServers') # Len(webServers)
            => (/\ pc = "scale"
                /\ scaleCooldown = 0
                /\ scaleCooldown' = 3
                /\ lastScaleTick = 0 \/ currentClockCycle - lastScaleTick >= 4)]_vars

\* two pool changes have happened, the second one outside the cooldown
C8_Witness ==
    /\ prevEval = "up" /\ lastEval = "down"
    /\ lastScaleTick >= 11
    /\ scaleCooldown < 3

\* C9: an evaluation with scaleCooldown = 0 and queue length > 25 * n
\* appends exactly one available server, leaves the other servers and the
\* queue unchanged and sets scaleCooldown to 3.
C9_ScaleUp ==
    [][(/\ pc = "scale" /\ scaleCooldown = 0
        /\ Len(requestQueue) > 25 * Len(webServers))
       => (/\ Len(webServers') = Len(webServers) + 1
           /\ SubSeq(webServers', 1, Len(webServers)) = webServers
           /\ webServers'[Len(webServers')].isAvailable
           /\ webServers'[Len(webServers')].timeRemaining = 0
           /\ requestQueue' = requestQueue
           /\ scaleCooldown' = 3)]_vars

\* queue length 26 and one server: the evaluation added the second server
C9_Witness ==
    /\ Len(requestQueue) = 26 /\ Len(webServers) = 2
    /\ initialNumServers = 1
    /\ lastEval = "up" /\ scaleCooldown = 3

\* C10: the pool is never empty.
C10_PoolNeverEmpty == Len(webServers) >= 1

\* queue length 10 and one server: the evaluation did nothing
C10_Witness ==
    /\ Len(requestQueue) = 10 /\ Len(webServers) = 1
    /\ initialNumServers = 1
    /\ lastEval = "none" /\ scaleCooldown = 0

\* the address ip starts with the decimal form of a number of lo..hi and a dot
FirstOctetIn(ip, lo, hi) ==
    \E o \in lo..hi :
        /\ Len(ip) > Len(to_string(o))
        /\ SubSeq(ip, 1, Len(to_string(o)) + 1) = to_string(o) \o <<".">>

\* C11: in the arrival step a generated request whose origin has its first
\* octet in 192..200 raises blockedRequests by one and leaves the queue
\* unchanged; any other generated request is appended to the queue and
\* leaves blockedRequests unchanged; blockedRequests never decreases and
\* changes only in the arrival step, by at most one per cycle.
C11_BlockedRange ==
    [][/\ blockedRequests' >= blockedRequests
       /\ blockedRequests' - blockedRequests <= 1
       /\ blockedRequests' # blockedRequests
            => (pc = "loop" /\ currentClockCycle' = currentClockCycle + 1)
       /\ (pc = "loop" /\ pc' = "advance" /\ lastGen' # <<>>)
            => IF FirstOctetIn(lastGen'[1].ipIn, 192, 200)
               THEN /\ blockedRequests' = blockedRequests + 1
                    /\ requestQueue' = requestQueue
               ELSE /\ blockedRequests' = blockedRequests
                    /\ requestQueue' = Append(requestQueue, lastGen'[1])]_vars

\* a request from the blocked range has just been rejected
C11_Witness ==
    /\ pc = "advance"
    /\ lastGen # <<>>
    /\ FirstOctetIn(lastGen[1].ipIn, 192, 200)
    /\ blockedRequests = 1

\* C12: requests leave the queue in the order they entered it: the requests
\* handed out so far followed by the queue are the requests pushed so far,
\* in push order; in one assignment loop the available servers, in pool
\* order, receive the successive heads of the queue.
C12_QueueOrder == served \o requestQueue = enqueued

C12_HeadsInPoolOrder ==
    pc = "dispatch" =>
      /\ \A i \in DOMAIN webServers :
           LET rank == Cardinality({m \in 1..i : webServers[m].isAvailable})
           IN  (webServers[i].isAvailable /\ rank <= Len(requestQueue))
                 => webServers'[i].currentRequest = requestQueue[rank]
      /\ \E k \in 0..Len(requestQueue) :
           requestQueue' = SubSeq(requestQueue, k + 1, Len(requestQueue))

C12_Fifo == [](C12_QueueOrder) /\ [][C12_HeadsInPoolOrder]_vars

\* two servers were given the first two requests of the queue, which differ
C12_Witness ==
    /\ pc = "scale"
    /\ Len(webServers) >= 2
    /\ Len(served) = 2
    /\ served[1] # served[2]
    /\ webServers[1].currentRequest = served[1]
    /\ webServers[2].currentRequest = served[2]
    /\ requestQueue # <<>>

\* C13: a serverID that belonged to a server removed by scale-down is never
\* given to a server of the pool again.
C13_IdsNeverReused ==
    \A i \in DOMAIN webServers : webServers[i].serverID \notin retired

\* C13 amended: the serverIDs of the pool are 0..n-1 in pool order, so they
\* are unique among the servers of the pool (and a later scale-up gives the
\* ID of a removed server again); server 0 is never removed.
C13_IdsArePositions ==
    /\ \A i \in DOMAIN webServers : webServers[i].serverID = i - 1
    /\ \A id \in retired : id >= 1

\* a server of the pool carries the ID of a server that was removed
C13_Witness ==
    \E i \in DOMAIN webServers : webServers[i].serverID \in retired

\* C14: Run terminates: the clock starts at 0, grows by exactly one per loop
\* iteration and only there, never exceeds runningTime and equals it when
\* the loop has exited; after the exit nothing changes any more.
C14_Terminates ==
    /\ currentClockCycle = 0
    /\ <>(pc = "done")
    /\ [](currentClockCycle <= runningTime)
    /\ [](pc = "done" => currentClockCycle = runningTime)
    /\ [][/\ pc # "done"
          /\ currentClockCycle' # currentClockCycle
               => (pc = "loop" /\ currentClockCycle' = currentClockCycle + 1)
          /\ (pc = "loop" /\ pc' # "done")
               => currentClockCycle' = currentClockCycle + 1]_vars

\* the longest run has ended with requests still queued and in flight
C14_Witness ==
    /\ pc = "done"
    /\ runningTime = MaxRunTime
    /\ currentClockCycle = MaxRunTime
    /\ requestQueue # <<>>
    /\ \E i \in DOMAIN webServers : Busy(webServers[i])

\* C15: handleRequest on an available server changes nothing of the server,
\* however often it is called in a row, and timeRemaining never goes below 0.
C15_IdleCallNoOp ==
    /\ [](\A i \in DOMAIN webServers : webServers[i].timeRemaining >= 0)
    /\ [][idleCalls' > idleCalls => webServers' = webServers]_vars

\* a server that has served a request got two handleRequest calls in a row
\* while available
C15_Witness ==
    /\ pc = "server"
    /\ idleCalls = 2
    /\ webServers[1].assignedAt > 0
    /\ webServers[1].isAvailable

C17_NoScalingInBand ==
    [][LET n == Len(webServers)
           q == Len(requestQueue)
       IN  (/\ pc = "scale" /\ scaleCooldown = 0
            /\ \/ (15 * n <= q /\ q <= 25 * n)
               \/ (q < 15 * n /\ n = 1))
           => UNCHANGED <<webServers, requestQueue, scaleCooldown,
                          totalRequestsProcessed, blockedRequests,
                          currentClockCycle, runningTime, initialNumServers>>]_vars

\* two servers and a queue of exactly 25 * 2: the evaluation did nothing
C17_Witness ==
    /\ pc = "scale"
    /\ Len(webServers) = 2 /\ Len(requestQueue) = 50
    /\ initialNumServers = 2
    /\ prevEval = "init" /\ lastEval = "none"
    /\ scaleCooldown = 0

\* C18: no request that is or was in the queue, the initial ones included,
\* has an origin address with first octet in 192..200.
C18_QueueIsFiltered ==
    /\ \A i \in DOMAIN requestQueue : ~FirstOctetIn(requestQueue[i].ipIn, 192, 200)
    /\ \A i \in DOMAIN served : ~FirstOctetIn(served[i].ipIn, 192, 200)

\* C19: processRequest is only called on an available server: a server's
\* request changes only in the assignment loop and only if the server was
\* available.
C19_AssignOnlyToIdle ==
    [][\A i \in DOMAIN webServers \cap DOMAIN webServers' :
          (\/ webServers'[i].currentRequest # webServers[i].currentRequest
           \/ webServers'[i].assignedAt # webServers[i].assignedAt)
          => (pc = "dispatch" /\ webServers[i].isAvailable)]_vars

\* the assignment loop passed over a busy server and gave a request to an
\* available one, with requests left in the queue
C19_Witness ==
    /\ pc = "scale"
    /\ requestQueue # <<>>
    /\ \E i, j \in DOMAIN webServers :
         /\ webServers[i].assignedAt = currentClockCycle
         /\ Busy(webServers[j])
         /\ webServers[j].assignedAt > 0
         /\ webServers[j].assignedAt < currentClockCycle
         /\ webServers[j].timeRemaining < webServers[j].currentRequest.processingTime

\* C20: right after the assignment loop the queue is empty or every server
\* is busy.
C20_WorkConserving ==
    pc = "scale" =>
        \/ requestQueue = <<>>
        \/ \A i \in DOMAIN webServers : Busy(webServers[i])

\* the assignment loop emptied the queue and a server stayed available
C20_Witness ==
    /\ pc = "scale"
    /\ requestQueue = <<>>
    /\ \E i \in DOMAIN webServers : webServers[i].assignedAt = currentClockCycle
    /\ \E i \in DOMAIN webServers : ~Busy(webServers[i])

====
